---- MODULE Spec2Model ----
(***************************************************************************)
(* Credit-risk evaluation backend: Altman Z-Score variants, Merton         *)
(* default probability, the decision combiner and the evaluation pipeline  *)
(* (schemas.py, company.py, models.py, evaluation.py, main.py).            *)
(*                                                                         *)
(* Floating point is modelled in fixed point.  A float is a record         *)
(* [k, v]: k = "fin" with v the scaled integer, or k in {"nan", "pinf",    *)
(* "ninf"} for the IEEE special values numpy produces.  Scales:            *)
(*   ratios x1..x5 and scores      1e-7   (S7)                             *)
(*   reported ratios (round 6)     1e-6                                    *)
(*   reported z_score (round 4)    1e-4                                    *)
(*   pct changes, sigma, ln, r     1e-4   (S4)                             *)
(*   distance to default           1e-3                                    *)
(*   probabilities                 1e-6   (S6)                             *)
(***************************************************************************)
EXTENDS Integers, Sequences, FiniteSets

VARIABLES
    pc,          \* position of the evaluation in main.evaluate / evaluate_company
    request,     \* the ZScoreRequest object handed to evaluate_company
    company,     \* the Company object (fetched statement and market snapshot)
    fetchCalls,  \* number of calls made to the data provider (yf.Ticker)
    model,       \* the Altman variant chosen by for_industry_type
    altman,      \* dict returned by AltmanValuationModel.evaluate
    merton,      \* dict returned by MertonModel.evaluate
    decision,    \* value returned by combined_decision
    response,    \* the ZScoreResponse returned to the caller
    error,       \* class of the exception that ended the evaluation
    http,        \* HTTP status of the reply
    call,        \* a direct call of one of the pure functions and its result
    dash,        \* the dashboard script's run: parsed inputs, loop index, results, errors
    workers      \* the evaluations in progress in the server's thread pool

vars == <<pc, request, company, fetchCalls, model, altman, merton, decision,
          response, error, http, call, dash, workers>>

None == [k |-> "none"]
NoCall == [fn |-> "none"]

(***************************************************************************)
(* Bounds of the model.                                                    *)
(***************************************************************************)
MaxIndustry == 4      \* industry codes 0..MaxIndustry are submitted
MaxTickerLen == 2     \* raw tickers have at most this many characters
MaxPeriods == 3       \* the provider returns 0..MaxPeriods balance-sheet columns
MaxScore == 400       \* directly classified scores: 0..MaxScore hundredths
MaxProbStep == 200    \* directly classified probabilities: 0..MaxProbStep steps
MaxBatch == 3         \* the dashboard submits at most this many comma-separated entries
MaxWorkers == 2       \* evaluations the server runs at the same time

(***************************************************************************)
(* Floats.                                                                 *)
(***************************************************************************)
Fin(v) == [k |-> "fin", v |-> v]
NaN == [k |-> "nan", v |-> 0]
PInf == [k |-> "pinf", v |-> 0]
NInf == [k |-> "ninf", v |-> 0]

IsFin(x) == x.k = "fin"
IsNaN(x) == x.k = "nan"

Abs(n) == IF n < 0 THEN -n ELSE n
Sgn(n) == IF n < 0 THEN -1 ELSE IF n > 0 THEN 1 ELSE 0

Pow10(k) == CASE k = 0 -> 1 [] k = 1 -> 10 [] k = 2 -> 100 [] k = 3 -> 1000
              [] k = 4 -> 10000 [] k = 5 -> 100000 [] k = 6 -> 1000000
              [] OTHER -> 10000000

S4 == Pow10(4)
S6 == Pow10(6)
S7 == Pow10(7)

\* the first k decimal digits of rem/d (0 <= rem < d), by long division
RECURSIVE FracDigits(_, _, _)
FracDigits(rem, d, k) ==
    IF k = 0 THEN 0
    ELSE LET t == rem * 10
         IN  (t \div d) * Pow10(k - 1) + FracDigits(t % d, d, k - 1)

\* n/d for d # 0, to `digits` decimals, truncated toward zero
DivFix(n, d, digits) ==
    LET an == Abs(n)
        ad == Abs(d)
        q == (an \div ad) * Pow10(digits) + FracDigits(an % ad, ad, digits)
    IN  Sgn(n) * Sgn(d) * q

\* float division of two finite numbers (numpy: x/0 is +-inf, 0/0 is nan)
FDiv(n, d, digits) ==
    IF d = 0
    THEN (IF n > 0 THEN PInf ELSE IF n < 0 THEN NInf ELSE NaN)
    ELSE Fin(DivFix(n, d, digits))

\* w/1000 * x without leaving 32 bits
MulMilli(w, x) ==
    LET ax == Abs(x)
    IN  Sgn(x) * (w * (ax \div 1000) + (w * (ax % 1000)) \div 1000)

\* a positive constant (in thousandths) times a float
FScale(w, x) == IF IsFin(x) THEN Fin(MulMilli(w, x.v)) ELSE x

FAdd(x, y) ==
    IF IsNaN(x) \/ IsNaN(y) THEN NaN
    ELSE IF IsFin(x) /\ IsFin(y) THEN Fin(x.v + y.v)
    ELSE IF IsFin(x) THEN y
    ELSE IF IsFin(y) THEN x
    ELSE IF x.k = y.k THEN x ELSE NaN

\* comparisons against a finite constant c; every comparison with nan is false
FGt(x, c) == x.k = "pinf" \/ (IsFin(x) /\ x.v > c)
FGe(x, c) == x.k = "pinf" \/ (IsFin(x) /\ x.v >= c)
FLt(x, c) == x.k = "ninf" \/ (IsFin(x) /\ x.v < c)
FLe(x, c) == x.k = "ninf" \/ (IsFin(x) /\ x.v <= c)

\* round(x, n): to the nearest multiple of `unit`, ties to even
RoundDiv(v, unit) ==
    LET a == Abs(v)
        q == a \div unit
        r2 == 2 * (a % unit)
        up == r2 > unit \/ (r2 = unit /\ q % 2 = 1)
    IN  Sgn(v) * (IF up THEN q + 1 ELSE q)

FRound(x, unit) == IF IsFin(x) THEN Fin(RoundDiv(x.v, unit)) ELSE x

\* integer square root
RECURSIVE SqrtIter(_, _, _)
SqrtIter(n, lo, hi) ==
    IF lo >= hi THEN lo
    ELSE LET mid == (lo + hi + 1) \div 2
         IN  IF mid * mid <= n THEN SqrtIter(n, mid, hi) ELSE SqrtIter(n, lo, mid - 1)

ISqrt(n) == SqrtIter(n, 0, 46340)

(***************************************************************************)
(* models.py: Altman classification, variant selection, combiner.          *)
(***************************************************************************)
Zones == {"Safe Zone", "Grey Zone", "Distress Zone"}

\* SAFE_THRESHOLD / DISTRESS_THRESHOLD of each variant, scale 1e-7
SAFE_THRESHOLD(name) ==
    IF name = "AltmanClassic" THEN 29900000 ELSE 26000000

DISTRESS_THRESHOLD(name) ==
    IF name = "AltmanClassic" THEN 18100000 ELSE 11000000

classify_mut_closed(name, z_score) ==
    IF FGe(z_score, SAFE_THRESHOLD(name)) THEN "Safe Zone"
    ELSE IF FGe(z_score, DISTRESS_THRESHOLD(name)) THEN "Grey Zone"
    ELSE "Distress Zone"

classify(name, z_score) ==
    IF FGt(z_score, SAFE_THRESHOLD(name)) THEN "Safe Zone"
    ELSE IF FGe(z_score, DISTRESS_THRESHOLD(name)) THEN "Grey Zone"
    ELSE "Distress Zone"

model_map == [i \in {1, 2, 3} |->
                 CASE i = 1 -> "AltmanClassic"
                   [] i = 2 -> "AltmanPrime"
                   [] OTHER -> "AltmanEmergingMarkets"]

\* for_industry_type: the variant, or the ValueError
for_industry_type(industry_type) ==
    IF industry_type \notin DOMAIN model_map
    THEN [k |-> "raise", exc |-> "ValueError"]
    ELSE [k |-> "ok", name |-> model_map[industry_type]]

combined_decision_mut_grey(altman_cls, merton_cls) ==
    IF altman_cls = "Distress Zone" \/ merton_cls = "Distress Zone" THEN "Dismissed"
    ELSE IF altman_cls = "Safe Zone" /\ merton_cls = "Safe Zone" THEN "Approved"
    ELSE IF altman_cls = "Grey Zone" /\ merton_cls = "Safe Zone"
         THEN "Approved with Caution"
    ELSE IF altman_cls = "Safe Zone" /\ merton_cls = "Grey Zone"
         THEN "Analysis Required"
    ELSE IF altman_cls = "Grey Zone" /\ merton_cls = "Grey Zone"
         THEN "Analysis Required"
    ELSE "None"

combined_decision_mut_lenient(altman_cls, merton_cls) ==
    IF altman_cls = "Distress Zone" \/ merton_cls = "Distress Zone" THEN "Dismissed"
    ELSE IF merton_cls = "Safe Zone" THEN "Approved"
    ELSE IF altman_cls = "Safe Zone" /\ merton_cls = "Grey Zone"
         THEN "Approved with Caution"
    ELSE IF altman_cls = "Grey Zone" /\ merton_cls = "Grey Zone"
         THEN "Analysis Required"
    ELSE "None"

\* falls off the end (Python None) for labels outside the three zones
combined_decision(altman_cls, merton_cls) ==
    IF altman_cls = "Distress Zone" \/ merton_cls = "Distress Zone" THEN "Dismissed"
    ELSE IF altman_cls = "Safe Zone" /\ merton_cls = "Safe Zone" THEN "Approved"
    ELSE IF altman_cls = "Grey Zone" /\ merton_cls = "Safe Zone"
         THEN "Approved with Caution"
    ELSE IF altman_cls = "Safe Zone" /\ merton_cls = "Grey Zone"
         THEN "Approved with Caution"
    ELSE IF altman_cls = "Grey Zone" /\ merton_cls = "Grey Zone"
         THEN "Analysis Required"
    ELSE "None"

_classify_merton_mut_le(prob) ==
    IF FLt(prob, 10000) THEN "Safe Zone"
    ELSE IF FLe(prob, 150000) THEN "Grey Zone"
    ELSE "Distress Zone"

\* MertonModel._classify_merton, prob at scale 1e-6
_classify_merton(prob) ==
    IF FLt(prob, 10000) THEN "Safe Zone"
    ELSE IF FLt(prob, 150000) THEN "Grey Zone"
    ELSE "Distress Zone"

(***************************************************************************)
(* company.py: the Company object and its line items.                      *)
(* A Company is a record                                                   *)
(*   [ticker, industry_type, assets, working_capital, retained_earnings,   *)
(*    total_liabilities, current_liabilities, stockholders_equity, ebit,   *)
(*    total_revenue, price, shares, missing]                               *)
(* where assets is the 'Total Assets' row (most recent first) and missing  *)
(* is the row the provider's statement lacks, or "none".                   *)
(***************************************************************************)
Rows == {"Total Assets", "Working Capital", "Retained Earnings",
         "Total Liabilities Net Minority Interest", "Current Liabilities",
         "Stockholders Equity", "EBIT", "Total Revenue"}

\* rows for which self._bs.loc[row] / self._ist.loc[row] raises KeyError
MissingRows(c) ==
    IF Len(c.assets) = 0 THEN Rows
    ELSE IF c.missing = "none" THEN {} ELSE {c.missing}

total_assets(c) == c.assets[1]
working_capital(c) == c.working_capital
retained_earnings(c) == c.retained_earnings
total_liabilities(c) == c.total_liabilities
current_liabilities(c) == c.current_liabilities
book_equity(c) == c.stockholders_equity
market_equity(c) == c.price * c.shares
ebit(c) == c.ebit
total_revenue(c) == c.total_revenue

x1(c) == FDiv(working_capital(c), total_assets(c), 7)
x2(c) == FDiv(retained_earnings(c), total_assets(c), 7)
x3(c) == FDiv(ebit(c), total_assets(c), 7)
x4(c) == FDiv(market_equity(c), total_liabilities(c), 7)
x4_mod_mut_market(c) == FDiv(market_equity(c), total_liabilities(c), 7)

x4_mod(c) == FDiv(book_equity(c), total_liabilities(c), 7)
x5(c) == FDiv(total_revenue(c), total_assets(c), 7)

(***************************************************************************)
(* models.py: the three compute methods and AltmanValuationModel.evaluate. *)
(***************************************************************************)
Ratios(a1, a2, a3, a4, a5) ==
    [x1 |-> FRound(a1, 10), x2 |-> FRound(a2, 10), x3 |-> FRound(a3, 10),
     x4 |-> FRound(a4, 10), x5 |-> FRound(a5, 10)]

Sum5(a, b, c, d, e) == FAdd(FAdd(FAdd(FAdd(a, b), c), d), e)

AltmanClassic_compute_mut_book(c) ==
    [z_score |-> Sum5(FScale(1200, x1(c)), FScale(1400, x2(c)), FScale(3300, x3(c)),
                      FScale(600, x4_mod(c)), FScale(1000, x5(c))),
     ratios |-> Ratios(x1(c), x2(c), x3(c), x4_mod(c), x5(c))]

AltmanClassic_compute(c) ==
    [z_score |-> Sum5(FScale(1200, x1(c)), FScale(1400, x2(c)), FScale(3300, x3(c)),
                      FScale(600, x4(c)), FScale(1000, x5(c))),
     ratios |-> Ratios(x1(c), x2(c), x3(c), x4(c), x5(c))]

AltmanPrime_compute(c) ==
    [z_score |-> Sum5(FScale(717, x1(c)), FScale(847, x2(c)), FScale(3107, x3(c)),
                      FScale(420, x4_mod(c)), FScale(998, x5(c))),
     ratios |-> Ratios(x1(c), x2(c), x3(c), x4_mod(c), x5(c))]

AltmanEmergingMarkets_compute(c) ==
    [z_score |-> FAdd(FAdd(FAdd(FScale(6560, x1(c)), FScale(3260, x2(c))),
                           FScale(6720, x3(c))), FScale(1050, x4_mod(c))),
     ratios |-> Ratios(x1(c), x2(c), x3(c), x4_mod(c), x5(c))]

compute(name, c) ==
    CASE name = "AltmanClassic" -> AltmanClassic_compute(c)
      [] name = "AltmanPrime" -> AltmanPrime_compute(c)
      [] OTHER -> AltmanEmergingMarkets_compute(c)

\* rows a variant's compute reads (x5 is computed by all three)
AltmanRows(name) ==
    {"Working Capital", "Total Assets", "Retained Earnings", "EBIT",
     "Total Liabilities Net Minority Interest", "Total Revenue"}
    \cup (IF name = "AltmanClassic" THEN {} ELSE {"Stockholders Equity"})

\* AltmanValuationModel.evaluate: the dict, or the KeyError of a missing row
Altman_evaluate(name, c) ==
    IF AltmanRows(name) \cap MissingRows(c) # {}
    THEN [k |-> "raise", exc |-> "KeyError"]
    ELSE LET r == compute(name, c)
         IN  [k |-> "ok",
              v |-> [z_score |-> FRound(r.z_score, 1000),
                     classification |-> classify(name, r.z_score),
                     model_name |-> name,
                     ratios |-> r.ratios]]

(***************************************************************************)
(* models.py: MertonModel.                                                 *)
(***************************************************************************)
\* assets.pct_change().dropna(): the period-over-period changes, scale 1e-4
RECURSIVE pct_change(_, _)
pct_change(assets, i) ==
    IF i > Len(assets) THEN <<>>
    ELSE LET ch == FDiv(assets[i] - assets[i - 1], assets[i - 1], 4)
         IN  (IF IsNaN(ch) THEN <<>> ELSE <<ch>>) \o pct_change(assets, i + 1)

RECURSIVE SumSeq(_)
SumSeq(s) == IF s = <<>> THEN 0 ELSE Head(s) + SumSeq(Tail(s))

\* Series.std(): sample standard deviation (ddof = 1), scale 1e-4
std(changes) ==
    LET n == Len(changes)
    IN  IF n < 2 THEN NaN
        ELSE IF \E i \in 1..n : ~IsFin(changes[i]) THEN NaN
        ELSE LET vals == [i \in 1..n |-> changes[i].v]
                 mean == DivFix(SumSeq(vals), n, 0)
                 sq == [i \in 1..n |-> (vals[i] - mean) * (vals[i] - mean)]
             IN  Fin(ISqrt(SumSeq(sq) \div (n - 1)))

\* np.log(v / d) for v, d > 0, scale 1e-4: 2 * atanh((v - d) / (v + d))
RECURSIVE AtanhSeries(_, _, _)
AtanhSeries(p, y2, n) ==
    IF p = 0 THEN 0
    ELSE p \div n + AtanhSeries((p * y2) \div S4, y2, n + 2)

log(v, d) ==
    LET y == DivFix(v - d, v + d, 4)
        ay == Abs(y)
    IN  Sgn(y) * 2 * AtanhSeries(ay, (ay * ay) \div S4, 1)

\* scipy.stats.norm.cdf at 0.0, 0.1, ..., 5.0, scale 1e-6
NormCdfTable ==
    <<500000, 539828, 579260, 617911, 655422, 691462, 725747, 758036, 788145,
      815940, 841345, 864334, 884930, 903200, 919243, 933193, 945201, 955435,
      964070, 971283, 977250, 982136, 986097, 989276, 991802, 993790, 995339,
      996533, 997445, 998134, 998650, 999032, 999313, 999517, 999663, 999767,
      999841, 999892, 999928, 999952, 999968, 999979, 999987, 999991, 999995,
      999997, 999998, 999999, 999999, 1000000, 1000000>>

\* norm.cdf(dd), dd at scale 1e-3, by linear interpolation in the table
norm_cdf(dd) ==
    LET a == Abs(dd)
        i == a \div 100
        up == IF a >= 5000 THEN S6
              ELSE NormCdfTable[i + 1]
                   + ((NormCdfTable[i + 2] - NormCdfTable[i + 1]) * (a % 100)) \div 100
    IN  IF dd >= 0 THEN up ELSE S6 - up

\* r = 0.04 (scale 1e-4) and t = 2
r == 400
t == 2

\* np.sqrt(t), scale 1e-4
sqrt_t == ISqrt(t * S4 * S4)

\* dd = ((np.log(v / d) + (r - 0.5 * sigma**2)) * t) / (sigma*np.sqrt(t)), scale 1e-3
distance_to_default(lnvd, sigma) ==
    FDiv(((lnvd + (r - (sigma * sigma) \div (2 * S4))) * t) * 1000,
         (sigma * sqrt_t) \div S4, 0)

\* sigma = float(assets.pct_change().dropna().std())
Sigma(c) == std(pct_change(c.assets, 2))

\* prob = float(1 - norm.cdf(dd)), scale 1e-6
default_probability(dd) ==
    CASE IsFin(dd) -> Fin(S6 - norm_cdf(dd.v))
      [] dd.k = "pinf" -> Fin(0)
      [] dd.k = "ninf" -> Fin(S6)
      [] OTHER -> NaN

Degenerate_mut_nosigma(sigma, v, d) == v <= 0 \/ d <= 0

\* if sigma == 0 or v <= 0 or d <= 0
Degenerate(sigma, v, d) == (IsFin(sigma) /\ sigma.v = 0) \/ v <= 0 \/ d <= 0

\* np.log(v / d) as a float: v, d > 0 wherever the code reaches it
log_ratio(v, d) == IF v > 0 /\ d > 0 THEN Fin(log(v, d)) ELSE NaN

\* MertonModel.evaluate: the dict, or the KeyError of a missing row
Merton_evaluate(c) ==
    IF {"Total Assets", "Current Liabilities"} \cap MissingRows(c) # {}
    THEN [k |-> "raise", exc |-> "KeyError"]
    ELSE LET sigma == Sigma(c)
             v == total_assets(c)
             d == current_liabilities(c)
         IN  IF Degenerate(sigma, v, d)
             THEN [k |-> "ok",
                   v |-> [default_probability |-> NaN,
                          classification |-> "Grey Zone"]]
             ELSE LET lnvd == log_ratio(v, d)
                      dd == IF IsFin(sigma) /\ IsFin(lnvd)
                            THEN distance_to_default(lnvd.v, sigma.v)
                            ELSE NaN
                      prob == default_probability(dd)
                  IN  [k |-> "ok",
                       v |-> [distance_to_default |-> dd,
                              default_probability |-> prob,
                              classification |-> _classify_merton(prob)]]

(***************************************************************************)
(* schemas.py: ZScoreRequest and its validators.  A ticker is a sequence   *)
(* of characters.                                                          *)
(***************************************************************************)
Chars == {" ", "a", "A"}

RECURSIVE lstrip(_)
lstrip(s) == IF s # <<>> /\ Head(s) = " " THEN lstrip(Tail(s)) ELSE s

RECURSIVE rstrip(_)
rstrip(s) ==
    IF s # <<>> /\ s[Len(s)] = " " THEN rstrip(SubSeq(s, 1, Len(s) - 1)) ELSE s

strip(s) == rstrip(lstrip(s))

upper(s) == [i \in 1..Len(s) |-> IF s[i] = "a" THEN "A" ELSE s[i]]

validate_industry_type(industry_type) ==
    IF industry_type \notin {1, 2, 3}
    THEN [k |-> "raise", exc |-> "ValueError"]
    ELSE [k |-> "ok", v |-> industry_type]

validate_ticker_mut_nostrip(ticker) ==
    LET tk == upper(ticker)
    IN  IF tk = <<>> THEN [k |-> "raise", exc |-> "ValueError"]
        ELSE [k |-> "ok", v |-> tk]

validate_ticker(ticker) ==
    LET tk == upper(strip(ticker))
    IN  IF tk = <<>> THEN [k |-> "raise", exc |-> "ValueError"]
        ELSE [k |-> "ok", v |-> tk]

\* ZScoreRequest(ticker=..., industry_type=...): both field validators run
ZScoreRequest(ticker, industry_type) ==
    LET tk == validate_ticker(ticker)
        it == validate_industry_type(industry_type)
    IN  IF tk.k = "raise" \/ it.k = "raise"
        THEN [k |-> "raise", exc |-> "RequestValidationError"]
        ELSE [k |-> "ok", v |-> [ticker |-> tk.v, industry_type |-> it.v]]

(***************************************************************************)
(* Inputs: what callers submit and what the data provider returns.         *)
(***************************************************************************)
IndustryCodes == 0..MaxIndustry

RawTickers == UNION {[1..n -> Chars] : n \in 0..MaxTickerLen}

\* tickers of requests that passed validation
ValidTickers == {validate_ticker(tk).v : tk \in {x \in RawTickers : validate_ticker(x).k = "ok"}}

AssetLevels == {1000, 1250}

Histories == UNION {[1..n -> AssetLevels] : n \in 0..MaxPeriods}

Statement(h, e, rev, tl, cl, eq, m) ==
    [assets |-> h, working_capital |-> 300, retained_earnings |-> 200,
     total_liabilities |-> tl, current_liabilities |-> cl,
     stockholders_equity |-> eq, ebit |-> e, total_revenue |-> rev,
     price |-> 10, shares |-> 50, missing |-> m]

EbitValues == {150, -300, -450}
RevenueValues == {800, 1500}
CurrentLiabilityValues == {0, 100, 700, 1500}
EquityValues == {260, 500}

\* statements with every row present, positive assets and liabilities of 400
FullStatements ==
    {Statement(h, e, rev, 400, cl, eq, "none") :
        h \in Histories, e \in EbitValues, rev \in RevenueValues,
        cl \in CurrentLiabilityValues, eq \in EquityValues}

\* statements with zero total liabilities or zero total assets, or lacking a row
MalformedStatements ==
    {Statement(<<1000, 1250, 1000>>, e, 800, 0, 100, 500, "none") : e \in EbitValues}
    \cup {Statement(h, e, 800, 400, 100, 500, "none") :
             h \in {<<0, 1000, 1250>>, <<1000, 0, 1250>>}, e \in EbitValues}
    \cup {Statement(<<1000, 1250, 1000>>, 150, 800, 400, 100, 500, m) :
             m \in {"EBIT", "Current Liabilities", "Stockholders Equity"}}

\* a statement whose Classic score lies within half a unit of the fourth
\* decimal above the safe threshold: 2.635 + 300/845 = 2.99003
BoundaryStatements ==
    {Statement(<<1000, 1250, 1000>>, 150, 1500, 845, 100, 500, "none")}

ProviderData == FullStatements \cup MalformedStatements \cup BoundaryStatements

\* balance_sheet.iloc[:, :4]
PERIODS == 4

Take(s, n) == IF Len(s) <= n THEN s ELSE SubSeq(s, 1, n)

(***************************************************************************)
(* main.py: the endpoint's mapping of exceptions to HTTP statuses.         *)
(***************************************************************************)
StatusOf(exc) ==
    CASE exc = "RequestValidationError" -> 422
      [] exc = "RuntimeError" -> 422
      [] exc \in {"ValueError", "ValidationError"} -> 400
      [] OTHER -> 500

Raise_mut_continue(exc) ==
    /\ pc' = pc
    /\ error' = exc
    /\ http' = StatusOf(exc)

Raise(exc) ==
    /\ pc' = "done"
    /\ error' = exc
    /\ http' = StatusOf(exc)

(***************************************************************************)
(* The evaluation pipeline.                                                *)
(***************************************************************************)
\* the dashboard before the Run button is pressed
IdleDash ==
    [phase |-> "idle", tickers |-> <<>>, industry_types |-> <<>>, i |-> 0,
     sent |-> <<>>, results |-> <<>>, errors |-> <<>>]

\* a thread of the pool with no request assigned
IdleWorker ==
    [pc |-> "idle", request |-> None, company |-> None, model |-> "unset",
     altman |-> None, merton |-> None, decision |-> "unset", response |-> None,
     error |-> "none", http |-> 0]

Init ==
    /\ pc = "idle"
    /\ request = None
    /\ company = None
    /\ fetchCalls = 0
    /\ model = None
    /\ altman = None
    /\ merton = None
    /\ decision = "unset"
    /\ response = None
    /\ error = "none"
    /\ http = 0
    /\ call = NoCall
    /\ dash = IdleDash
    /\ workers = [w \in 1..MaxWorkers |-> IdleWorker]

\* POST /evaluate: FastAPI builds the ZScoreRequest from the JSON body
Receive(ticker, industry_type) ==
    /\ pc = "idle"
    /\ LET req == ZScoreRequest(ticker, industry_type)
       IN  IF req.k = "raise"
           THEN /\ Raise(req.exc)
                /\ request' = [ticker |-> ticker, industry_type |-> industry_type]
           ELSE /\ request' = req.v
                /\ pc' = "validated"
                /\ UNCHANGED <<error, http>>
    /\ UNCHANGED <<company, fetchCalls, model, altman, merton, decision, response, call>>
    /\ UNCHANGED <<dash, workers>>

\* evaluate(request) called in-process with a request whose industry_type was
\* assigned after construction (pydantic does not validate on assignment)
CallEvaluate(ticker, industry_type) ==
    /\ pc = "idle"
    /\ request' = [ticker |-> ticker, industry_type |-> industry_type]
    /\ pc' = "validated"
    /\ UNCHANGED <<company, fetchCalls, model, altman, merton, decision, response,
                   error, http, call>>
    /\ UNCHANGED <<dash, workers>>

\* the industry check at the head of Company.__init__
CompanyAccepts_mut_any(industry_type) == TRUE

CompanyAccepts(industry_type) == industry_type \in {1, 2, 3}

\* Company(ticker, industry_type): the check, then the fetch
Company_init ==
    /\ pc = "validated"
    /\ IF ~CompanyAccepts(request.industry_type)
       THEN /\ Raise("ValueError")
            /\ UNCHANGED <<company, fetchCalls>>
       ELSE /\ fetchCalls' = fetchCalls + 1
            /\ \/ /\ Raise("RuntimeError")
                  /\ UNCHANGED company
               \/ \E d \in ProviderData :
                     /\ company' = [d EXCEPT !.assets = Take(d.assets, PERIODS)]
                     /\ pc' = "company"
                     /\ UNCHANGED <<error, http>>
    /\ UNCHANGED <<request, model, altman, merton, decision, response, call>>
    /\ UNCHANGED <<dash, workers>>

\* altman_model = AltmanValuationModel.for_industry_type(request.industry_type)
SelectModel ==
    /\ pc = "company"
    /\ LET m == for_industry_type(request.industry_type)
       IN  IF m.k = "raise"
           THEN Raise(m.exc) /\ UNCHANGED model
           ELSE /\ model' = m.name
                /\ pc' = "selected"
                /\ UNCHANGED <<error, http>>
    /\ UNCHANGED <<request, company, fetchCalls, altman, merton, decision, response, call>>
    /\ UNCHANGED <<dash, workers>>

\* altman = altman_model.evaluate(company)
AltmanEvaluate ==
    /\ pc = "selected"
    /\ LET a == Altman_evaluate(model, company)
       IN  IF a.k = "raise"
           THEN Raise(a.exc) /\ UNCHANGED altman
           ELSE /\ altman' = a.v
                /\ pc' = "altman"
                /\ UNCHANGED <<error, http>>
    /\ UNCHANGED <<request, company, fetchCalls, model, merton, decision, response, call>>
    /\ UNCHANGED <<dash, workers>>

\* merton = MertonModel(company).evaluate()
MertonEvaluate ==
    /\ pc = "altman"
    /\ LET m == Merton_evaluate(company)
       IN  IF m.k = "raise"
           THEN Raise(m.exc) /\ UNCHANGED merton
           ELSE /\ merton' = m.v
                /\ pc' = "merton"
                /\ UNCHANGED <<error, http>>
    /\ UNCHANGED <<request, company, fetchCalls, model, altman, decision, response, call>>
    /\ UNCHANGED <<dash, workers>>

\* decision = combined_decision(altman["classification"], merton["classification"])
Combine ==
    /\ pc = "merton"
    /\ decision' = combined_decision(altman.classification, merton.classification)
    /\ pc' = "combined"
    /\ UNCHANGED <<request, company, fetchCalls, model, altman, merton, response,
                   error, http, call>>
    /\ UNCHANGED <<dash, workers>>

\* MertonDetail(**merton): all three fields are required
MertonDetail(m) ==
    IF {"distance_to_default", "default_probability", "classification"} \subseteq DOMAIN m
    THEN [k |-> "ok", v |-> m]
    ELSE [k |-> "raise", exc |-> "ValidationError"]

\* return ZScoreResponse(...)
Assemble ==
    /\ pc = "combined"
    /\ LET md == MertonDetail(merton)
       IN  IF md.k = "raise" \/ decision = "None"
           THEN Raise("ValidationError") /\ UNCHANGED response
           ELSE /\ response' = [ticker |-> request.ticker,
                                model_name |-> altman.model_name,
                                z_score |-> altman.z_score,
                                classification |-> altman.classification,
                                ratios |-> altman.ratios,
                                merton |-> md.v,
                                combined_decision |-> decision]
                /\ pc' = "done"
                /\ http' = 200
                /\ UNCHANGED error
    /\ UNCHANGED <<request, company, fetchCalls, model, altman, merton, decision, call>>
    /\ UNCHANGED <<dash, workers>>

Next ==
    \/ \E tk \in RawTickers, i \in IndustryCodes : Receive(tk, i)
    \/ \E tk \in ValidTickers, i \in IndustryCodes : CallEvaluate(tk, i)
    \/ Company_init
    \/ SelectModel
    \/ AltmanEvaluate
    \/ MertonEvaluate
    \/ Combine
    \/ Assemble

Spec == Init /\ [][Next]_vars

(***************************************************************************)
(* Direct calls of the pure functions of models.py.                        *)
(***************************************************************************)
\* scores from -MaxScore to MaxScore hundredths
Scores == {Fin(k * 100000) : k \in (0 - MaxScore)..MaxScore}

\* probabilities in steps of 0.005
Probabilities == {Fin(k * 5000) : k \in 0..MaxProbStep}

CallClassify(industry_type, z) ==
    /\ call = NoCall
    /\ call' = [fn |-> "classify", industry_type |-> industry_type, arg |-> z,
                result |-> classify(for_industry_type(industry_type).name, z)]
    /\ UNCHANGED <<pc, request, company, fetchCalls, model, altman, merton, decision,
                   response, error, http>>
    /\ UNCHANGED <<dash, workers>>

CallCombinedDecision(a, m) ==
    /\ call = NoCall
    /\ call' = [fn |-> "combined_decision", altman_cls |-> a, merton_cls |-> m,
                result |-> combined_decision(a, m)]
    /\ UNCHANGED <<pc, request, company, fetchCalls, model, altman, merton, decision,
                   response, error, http>>
    /\ UNCHANGED <<dash, workers>>

CallClassifyMerton(p) ==
    /\ call = NoCall
    /\ call' = [fn |-> "_classify_merton", arg |-> p, result |-> _classify_merton(p)]
    /\ UNCHANGED <<pc, request, company, fetchCalls, model, altman, merton, decision,
                   response, error, http>>
    /\ UNCHANGED <<dash, workers>>

NextCalls ==
    \/ \E i \in DOMAIN model_map, z \in Scores : CallClassify(i, z)
    \/ \E a \in Zones, m \in Zones : CallCombinedDecision(a, m)
    \/ \E p \in Probabilities : CallClassifyMerton(p)

SpecCalls == Init /\ [][NextCalls]_vars

(***************************************************************************)
(* dashboard.py: one run of the Streamlit script over a batch.             *)
(***************************************************************************)
\* the comma-separated pieces typed into the ticker box
BatchTokens == {<<"a">>, <<"A", "A">>, <<" ">>}

TickerInputs == UNION {[1..n -> BatchTokens] : n \in 0..MaxBatch}

\* the pieces of the industry box, each an integer literal
IndustryInputs == UNION {[1..n -> IndustryCodes] : n \in 0..MaxBatch}

\* tickers = [t.strip().upper() for t in tickers_raw.split(",") if t.strip()]
parse_tickers(tokens) ==
    LET kept == SelectSeq(tokens, LAMBDA tk : strip(tk) # <<>>)
    IN  [j \in 1..Len(kept) |-> upper(strip(kept[j]))]

\* what the POST comes back with: a 200 body, an HTTP error status with or
\* without a JSON detail, or a failure of the connection or of the decoding
ApiOutcomes == {"ok", "HTTPError", "HTTPErrorNoJson", "Exception"}

\* call_api: the JSON body of a 200 reply, or the exception raised
call_api(ticker, industry_type, outcome) ==
    IF outcome = "ok"
    THEN [k |-> "ok", v |-> [ticker |-> validate_ticker(ticker).v,
                             model_name |-> model_map[industry_type]]]
    ELSE [k |-> "raise", exc |-> outcome]

\* the Run button: parsing and the checks that stop the script
RunAnalysis ==
    /\ dash.phase = "idle"
    /\ \E tokens \in TickerInputs, types \in IndustryInputs :
          LET tickers == parse_tickers(tokens)
          IN  IF \/ tickers = <<>>
                 \/ types = <<>>
                 \/ Len(types) # Len(tickers)
                 \/ \E j \in DOMAIN types : types[j] \notin {1, 2, 3}
              THEN dash' = [dash EXCEPT !.phase = "stopped"]
              ELSE dash' = [dash EXCEPT !.phase = "loop", !.tickers = tickers,
                                        !.industry_types = types]
    /\ UNCHANGED <<pc, request, company, fetchCalls, model, altman, merton, decision,
                   response, error, http, call, workers>>

BatchIteration_mut_abort(outcome) ==
    /\ dash.phase = "loop"
    /\ dash.i < Len(dash.tickers)
    /\ LET ticker == dash.tickers[dash.i + 1]
           industry_type == dash.industry_types[dash.i + 1]
           reply == call_api(ticker, industry_type, outcome)
       IN  dash' = [dash EXCEPT
                       !.i = @ + 1,
                       !.phase = IF reply.k = "ok" THEN @ ELSE "done",
                       !.sent = Append(@, <<ticker, industry_type>>),
                       !.results = IF reply.k = "ok" THEN Append(@, reply.v) ELSE @]
    /\ UNCHANGED <<pc, request, company, fetchCalls, model, altman, merton, decision,
                   response, error, http, call, workers>>

\* one pass of the body of the for loop
BatchIteration(outcome) ==
    /\ dash.phase = "loop"
    /\ dash.i < Len(dash.tickers)
    /\ LET ticker == dash.tickers[dash.i + 1]
           industry_type == dash.industry_types[dash.i + 1]
           reply == call_api(ticker, industry_type, outcome)
           detail == IF reply.k = "raise" /\ reply.exc = "HTTPError"
                     THEN "detail" ELSE "str(exc)"
       IN  dash' = [dash EXCEPT
                       !.i = @ + 1,
                       !.sent = Append(@, <<ticker, industry_type>>),
                       !.results = IF reply.k = "ok" THEN Append(@, reply.v) ELSE @,
                       !.errors = IF reply.k = "ok" THEN @
                                  ELSE Append(@, [ticker |-> ticker, error |-> detail])]
    /\ UNCHANGED <<pc, request, company, fetchCalls, model, altman, merton, decision,
                   response, error, http, call, workers>>

\* the loop is exhausted: progress.empty()
BatchFinish ==
    /\ dash.phase = "loop"
    /\ dash.i = Len(dash.tickers)
    /\ dash' = [dash EXCEPT !.phase = "done"]
    /\ UNCHANGED <<pc, request, company, fetchCalls, model, altman, merton, decision,
                   response, error, http, call, workers>>

NextBatch ==
    \/ RunAnalysis
    \/ \E outcome \in ApiOutcomes : BatchIteration(outcome)
    \/ BatchFinish

SpecBatch == Init /\ [][NextBatch]_vars

(***************************************************************************)
(* main.py under load: the endpoint is a plain def, so the server runs     *)
(* each request in a thread of its pool; every thread executes             *)
(* evaluate_company on its own locals.                                     *)
(***************************************************************************)
Workers == 1..MaxWorkers

\* requests that passed ZScoreRequest's validators
WorkerRequests ==
    {[ticker |-> <<"A">>, industry_type |-> 1],
     [ticker |-> <<"A", "A">>, industry_type |-> 3]}

\* what the provider returns to the threads: the scenario statement, a
\* distressed one, and one without the EBIT row
WorkerData ==
    {Statement(<<1000, 1250, 1000>>, 150, 800, 400, 100, 500, "none"),
     Statement(<<1000, 1250, 1000>>, -450, 800, 400, 1500, 260, "none"),
     Statement(<<1000, 1250, 1000>>, 150, 800, 400, 100, 500, "EBIT")}

company_of_mut_shared(ws, w) ==
    IF ws[1].company # None THEN ws[1].company ELSE ws[w].company

\* the Company object a thread's models read: its own local
company_of(ws, w) == ws[w].company

\* the exception leaves evaluate_company and main.evaluate maps it
Fail(l, exc) == [l EXCEPT !.pc = "done", !.error = exc, !.http = StatusOf(exc)]

OthersUnchanged ==
    UNCHANGED <<pc, request, company, fetchCalls, model, altman, merton, decision,
                response, error, http, call, dash>>

\* a thread picks up a validated request
WorkerReceive(w, req) ==
    /\ workers[w].pc = "idle"
    /\ workers' = [workers EXCEPT ![w] = [@ EXCEPT !.request = req, !.pc = "validated"]]
    /\ OthersUnchanged

\* company = Company(ticker=..., industry_type=...)
WorkerCompany(w) ==
    /\ workers[w].pc = "validated"
    /\ LET l == workers[w]
       IN  IF ~CompanyAccepts(l.request.industry_type)
           THEN workers' = [workers EXCEPT ![w] = Fail(l, "ValueError")]
           ELSE \/ workers' = [workers EXCEPT ![w] = Fail(l, "RuntimeError")]
                \/ \E d \in WorkerData :
                      workers' = [workers EXCEPT ![w] =
                                     [l EXCEPT !.company = d, !.pc = "company"]]
    /\ OthersUnchanged

\* altman_model = AltmanValuationModel.for_industry_type(...)
WorkerSelectModel(w) ==
    /\ workers[w].pc = "company"
    /\ LET l == workers[w]
           m == for_industry_type(l.request.industry_type)
       IN  workers' = [workers EXCEPT ![w] =
                          IF m.k = "raise" THEN Fail(l, m.exc)
                          ELSE [l EXCEPT !.model = m.name, !.pc = "selected"]]
    /\ OthersUnchanged

\* altman = altman_model.evaluate(company)
WorkerAltman(w) ==
    /\ workers[w].pc = "selected"
    /\ LET l == workers[w]
           a == Altman_evaluate(l.model, company_of(workers, w))
       IN  workers' = [workers EXCEPT ![w] =
                          IF a.k = "raise" THEN Fail(l, a.exc)
                          ELSE [l EXCEPT !.altman = a.v, !.pc = "altman"]]
    /\ OthersUnchanged

\* merton = MertonModel(company).evaluate()
WorkerMerton(w) ==
    /\ workers[w].pc = "altman"
    /\ LET l == workers[w]
           m == Merton_evaluate(company_of(workers, w))
       IN  workers' = [workers EXCEPT ![w] =
                          IF m.k = "raise" THEN Fail(l, m.exc)
                          ELSE [l EXCEPT !.merton = m.v, !.pc = "merton"]]
    /\ OthersUnchanged

\* decision = combined_decision(...)
WorkerCombine(w) ==
    /\ workers[w].pc = "merton"
    /\ LET l == workers[w]
       IN  workers' = [workers EXCEPT ![w] =
                          [l EXCEPT !.decision = combined_decision(l.altman.classification,
                                                                   l.merton.classification),
                                    !.pc = "combined"]]
    /\ OthersUnchanged

\* return ZScoreResponse(...)
WorkerAssemble(w) ==
    /\ workers[w].pc = "combined"
    /\ LET l == workers[w]
           md == MertonDetail(l.merton)
       IN  workers' = [workers EXCEPT ![w] =
                          IF md.k = "raise" \/ l.decision = "None"
                          THEN Fail(l, "ValidationError")
                          ELSE [l EXCEPT !.response =
                                           [ticker |-> l.request.ticker,
                                            model_name |-> l.altman.model_name,
                                            z_score |-> l.altman.z_score,
                                            classification |-> l.altman.classification,
                                            ratios |-> l.altman.ratios,
                                            merton |-> md.v,
                                            combined_decision |-> l.decision],
                                       !.pc = "done", !.http = 200]]
    /\ OthersUnchanged

NextWorkers ==
    \E w \in Workers :
        \/ \E req \in WorkerRequests : WorkerReceive(w, req)
        \/ WorkerCompany(w)
        \/ WorkerSelectModel(w)
        \/ WorkerAltman(w)
        \/ WorkerMerton(w)
        \/ WorkerCombine(w)
        \/ WorkerAssemble(w)

SpecWorkers == Init /\ [][NextWorkers]_vars

(***************************************************************************)
(* Properties.                                                             *)
(***************************************************************************)
HasAltman == altman # None
HasMerton == merton # None

\* the statement of the end-to-end scenario of the specification
IsScenario(c) ==
    /\ total_assets(c) = 1000 /\ c.working_capital = 300
    /\ c.retained_earnings = 200 /\ c.ebit = 150
    /\ c.total_liabilities = 400 /\ c.total_revenue = 800
    /\ c.price = 10 /\ c.shares = 50

\* C1: for every pair of zones, combined_decision returns the table entry:
\* Dismissed if either is Distress, else Approved if both Safe, Approved with
\* Caution if one is Safe and the other Grey, Analysis Required if both Grey.
C1_CombinerTable ==
    call.fn = "combined_decision" =>
        LET a == call.altman_cls
            m == call.merton_cls
        IN  call.result =
                (IF "Distress Zone" \in {a, m} THEN "Dismissed"
                 ELSE IF {a, m} = {"Safe Zone"} THEN "Approved"
                 ELSE IF {a, m} = {"Safe Zone", "Grey Zone"} THEN "Approved with Caution"
                 ELSE "Analysis Required")

C1_Witness ==
    /\ call.fn = "combined_decision"
    /\ call.altman_cls = "Safe Zone"
    /\ call.merton_cls = "Grey Zone"
    /\ call.result = "Approved with Caution"

\* C2: for every industry code and score z the zone is Safe iff z > SAFE, Grey iff
\* DISTRESS <= z <= SAFE, Distress iff z < DISTRESS, with (SAFE, DISTRESS) =
\* (2.99, 1.81) for code 1 and (2.60, 1.10) for codes 2 and 3.
C2_AltmanZones ==
    call.fn = "classify" =>
        LET z == call.arg.v
            safe == IF call.industry_type = 1 THEN 29900000 ELSE 26000000
            distress == IF call.industry_type = 1 THEN 18100000 ELSE 11000000
        IN  /\ call.result = "Safe Zone" <=> z > safe
            /\ call.result = "Grey Zone" <=> (distress <= z /\ z <= safe)
            /\ call.result = "Distress Zone" <=> z < distress

C2_Witness ==
    /\ call.fn = "classify"
    /\ call.industry_type = 1
    /\ call.arg = Fin(29900000)
    /\ call.result = "Grey Zone"

\* C3: for industry code 1 the z-score is 1.2*x1 + 1.4*x2 + 3.3*x3 + 0.6*x4 +
\* 1.0*x5 with x4 = price * shares / total liabilities; the scenario statement
\* scores 2.685 and is Grey Zone.
C3_ClassicScore ==
    (HasAltman /\ request.industry_type = 1) =>
        LET c == company
            ta == c.assets[1]
            z == Sum5(FScale(1200, FDiv(c.working_capital, ta, 7)),
                      FScale(1400, FDiv(c.retained_earnings, ta, 7)),
                      FScale(3300, FDiv(c.ebit, ta, 7)),
                      FScale(600, FDiv(c.price * c.shares, c.total_liabilities, 7)),
                      FScale(1000, FDiv(c.total_revenue, ta, 7)))
        IN  /\ altman.z_score = FRound(z, 1000)
            /\ IsScenario(c) =>
                  /\ altman.z_score = Fin(26850)
                  /\ altman.classification = "Grey Zone"

C3_Witness ==
    /\ HasAltman
    /\ request.industry_type = 1
    /\ IsScenario(company)
    /\ company.stockholders_equity # company.price * company.shares
    /\ altman.z_score = Fin(26850)

\* C4: for industry codes 2 and 3 the x4 term and the reported x4 are book equity
\* over total liabilities; Prime is 0.717*x1 + 0.847*x2 + 3.107*x3 + 0.420*x4_mod
\* + 0.998*x5, EmergingMarkets is 6.56*x1 + 3.26*x2 + 6.72*x3 + 1.05*x4_mod with
\* no x5 term, so a change of total revenue alone leaves its score and zone.
C4_BookEquityVariants ==
    (HasAltman /\ request.industry_type \in {2, 3}) =>
        LET c == company
            ta == c.assets[1]
            f1 == FDiv(c.working_capital, ta, 7)
            f2 == FDiv(c.retained_earnings, ta, 7)
            f3 == FDiv(c.ebit, ta, 7)
            f4 == FDiv(c.stockholders_equity, c.total_liabilities, 7)
            f5 == FDiv(c.total_revenue, ta, 7)
            prime == Sum5(FScale(717, f1), FScale(847, f2), FScale(3107, f3),
                          FScale(420, f4), FScale(998, f5))
            em == FAdd(FAdd(FAdd(FScale(6560, f1), FScale(3260, f2)),
                            FScale(6720, f3)), FScale(1050, f4))
        IN  /\ altman.ratios.x4 = FRound(f4, 10)
            /\ request.industry_type = 2 => altman.z_score = FRound(prime, 1000)
            /\ request.industry_type = 3 =>
                  /\ altman.z_score = FRound(em, 1000)
                  /\ \A rev \in RevenueValues :
                        LET other == Altman_evaluate(model,
                                         [c EXCEPT !.total_revenue = rev]).v
                        IN  /\ other.z_score = altman.z_score
                            /\ other.classification = altman.classification

C4_Witness ==
    /\ HasAltman
    /\ request.industry_type = 3
    /\ company.stockholders_equity # company.price * company.shares
    /\ company.total_revenue = 1500
    /\ IsFin(altman.z_score)
    /\ altman.classification = "Grey Zone"

\* C5: for every industry code outside {1,2,3} the evaluation fails with a
\* validation error and no call is ever made to the data provider.
C5_InvalidIndustryNoFetch ==
    (request # None /\ request.industry_type \notin {1, 2, 3}) =>
        /\ fetchCalls = 0
        /\ company = None
        /\ response = None
        /\ pc \in {"validated", "done"}
        /\ pc = "done" => error \in {"RequestValidationError", "ValueError"}

C5_Witness ==
    /\ request # None
    /\ request.industry_type \notin {1, 2, 3}
    /\ pc = "done"
    /\ error = "ValueError"
    /\ fetchCalls = 0

\* C6: MertonModel.evaluate returns {default_probability: NaN, classification:
\* Grey Zone} without distance_to_default whenever sigma = 0 or V <= 0 or D <= 0.
C6_MertonDegenerate ==
    HasMerton =>
        LET sigma == Sigma(company)
            v == company.assets[1]
            d == company.current_liabilities
        IN  ((IsFin(sigma) /\ sigma.v = 0) \/ v <= 0 \/ d <= 0) =>
                merton = [default_probability |-> NaN, classification |-> "Grey Zone"]

C6_Witness ==
    /\ HasMerton
    /\ Sigma(company) = Fin(0)
    /\ company.assets[1] > 0
    /\ company.current_liabilities > 0
    /\ merton = [default_probability |-> NaN, classification |-> "Grey Zone"]

\* C7: a degenerate Merton result is not an error: the evaluation completes with
\* a response whose Merton classification is Grey Zone and whose decision is the
\* table entry for (Altman zone, Grey Zone).
C7_DegenerateStillResponds ==
    (pc = "done" /\ HasMerton /\ "distance_to_default" \notin DOMAIN merton
        /\ IsFin(altman.z_score)) =>
        /\ error = "none"
        /\ http = 200
        /\ response # None
        /\ response.merton.classification = "Grey Zone"
        /\ response.combined_decision =
               (IF altman.classification = "Distress Zone" THEN "Dismissed"
                ELSE IF altman.classification = "Safe Zone" THEN "Approved with Caution"
                ELSE "Analysis Required")

\* C8: for sigma # 0, V > 0, D > 0 the distance to default is
\* [ln(V/D) + (r - 0.5*sigma^2)*t] / (sigma*sqrt(t)), the horizon multiplying
\* the drift term only, and the default probability is 1 - Phi(dd).
C8_DistanceToDefault ==
    (HasMerton /\ "distance_to_default" \in DOMAIN merton
        /\ IsFin(merton.distance_to_default)) =>
        LET sigma == Sigma(company).v
            lnvd == log(company.assets[1], company.current_liabilities)
            dd == FDiv((lnvd + (r - (sigma * sigma) \div (2 * S4)) * t) * 1000,
                       (sigma * sqrt_t) \div S4, 0)
        IN  /\ merton.distance_to_default = dd
            /\ merton.default_probability = Fin(S6 - norm_cdf(dd.v))

\* C9: the Merton zone is Safe iff p < 0.01, Grey iff 0.01 <= p < 0.15 and
\* Distress iff p >= 0.15, for every probability p.
C9_MertonZones ==
    call.fn = "_classify_merton" =>
        LET p == call.arg.v
        IN  /\ call.result = "Safe Zone" <=> p < 10000
            /\ call.result = "Grey Zone" <=> (10000 <= p /\ p < 150000)
            /\ call.result = "Distress Zone" <=> p >= 150000

C9_Witness ==
    /\ call.fn = "_classify_merton"
    /\ call.arg = Fin(150000)
    /\ call.result = "Distress Zone"

\* C10: with fewer than 3 total-asset observations the Merton result is the
\* degenerate one: default_probability NaN and classification Grey Zone.
C10_FewObservationsDegenerate ==
    (HasMerton /\ Len(company.assets) < 3) =>
        /\ IsNaN(merton.default_probability)
        /\ merton.classification = "Grey Zone"

\* C11: every response carries a combined_decision that is one of Approved,
\* Approved with Caution, Analysis Required, Dismissed (never null) and equals
\* the combiner's table entry for the response's own Altman and Merton zones,
\* each of which is one of the three zone labels.
C11_ResponseDecision ==
    response # None =>
        LET a == response.classification
            m == response.merton.classification
        IN  /\ a \in {"Safe Zone", "Grey Zone", "Distress Zone"}
            /\ m \in {"Safe Zone", "Grey Zone", "Distress Zone"}
            /\ response.combined_decision \in
                   {"Approved", "Approved with Caution", "Analysis Required", "Dismissed"}
            /\ response.combined_decision =
                   (IF "Distress Zone" \in {a, m} THEN "Dismissed"
                    ELSE IF {a, m} = {"Safe Zone"} THEN "Approved"
                    ELSE IF {a, m} = {"Grey Zone"} THEN "Analysis Required"
                    ELSE "Approved with Caution")

C11_Witness ==
    /\ response # None
    /\ response.classification = "Grey Zone"
    /\ response.merton.classification = "Safe Zone"
    /\ response.combined_decision = "Approved with Caution"

\* C12: the steps run in the order fetch, Altman evaluate, Merton evaluate,
\* combine, assemble, and the evaluation fails fast: once a step has raised no
\* later step runs and the caller receives only the error; a response exists
\* only with all of its seven fields and without an error.
C12_FailFast ==
    /\ altman # None => company # None
    /\ merton # None => altman # None
    /\ decision # "unset" => merton # None
    /\ response # None =>
          /\ decision # "unset"
          /\ error = "none" /\ http = 200 /\ pc = "done"
          /\ DOMAIN response = {"ticker", "model_name", "z_score", "classification",
                                "ratios", "merton", "combined_decision"}
    /\ error # "none" =>
          /\ pc = "done" /\ response = None /\ http \in {400, 422, 500}
    /\ pc = "done" => ~ENABLED Next

C12_Witness ==
    /\ pc = "done"
    /\ error = "KeyError"
    /\ company # None
    /\ altman # None
    /\ merton = None /\ decision = "unset" /\ response = None

RECURSIVE Interleaves(_, _, _)
\* c is a merge of a and b that keeps the order of each
Interleaves(a, b, c) ==
    IF c = <<>> THEN a = <<>> /\ b = <<>>
    ELSE \/ a # <<>> /\ Head(a) = Head(c) /\ Interleaves(Tail(a), b, Tail(c))
         \/ b # <<>> /\ Head(b) = Head(c) /\ Interleaves(a, Tail(b), Tail(c))

\* C13: in the dashboard's batch loop a failed ticker (HTTP error or any other
\* exception) does not stop the rest: every submitted pair is posted exactly
\* once, in input order; each lands in exactly one of results and errors, the
\* error entries carrying the failing ticker; both lists keep the input order;
\* the loop ends only after the last pair.
C13_BatchIsolation ==
    dash.phase \in {"loop", "done"} =>
        LET n == Len(dash.tickers)
            pairs == [j \in 1..n |-> <<dash.tickers[j], dash.industry_types[j]>>]
            resultTickers == [j \in 1..Len(dash.results) |-> dash.results[j].ticker]
            errorTickers == [j \in 1..Len(dash.errors) |-> dash.errors[j].ticker]
        IN  /\ dash.i \in 0..n
            /\ dash.sent = SubSeq(pairs, 1, dash.i)
            /\ Len(dash.results) + Len(dash.errors) = dash.i
            /\ Interleaves(resultTickers, errorTickers, SubSeq(dash.tickers, 1, dash.i))
            /\ dash.phase = "done" => dash.i = n

C13_Witness ==
    /\ dash.phase = "done"
    /\ dash.tickers = <<<<"A">>, <<"A", "A">>, <<"A">>>>
    /\ Len(dash.errors) = 1 /\ dash.errors[1].ticker = <<"A">>
    /\ Len(dash.results) = 2
    /\ dash.results[1].ticker = <<"A", "A">>
    /\ dash.results[2].ticker = <<"A">>

\* C14: a statement whose total assets or total liabilities is zero ends the
\* evaluation with a data-retrieval error (RuntimeError) and no response; no
\* ratio, z-score or response field is ever infinite or NaN.
C14_ZeroDenominatorRejected ==
    /\ (pc = "done" /\ company # None /\ company.missing = "none"
           /\ Len(company.assets) > 0
           /\ (company.assets[1] = 0 \/ company.total_liabilities = 0)) =>
          /\ error = "RuntimeError"
          /\ response = None
    /\ altman # None =>
          /\ IsFin(altman.z_score)
          /\ \A x \in DOMAIN altman.ratios : IsFin(altman.ratios[x])
    /\ response # None =>
          /\ IsFin(response.z_score)
          /\ \A x \in DOMAIN response.ratios : IsFin(response.ratios[x])

\* C15: when the fetched statement lacks a line item the evaluation needs, the
\* evaluation ends in a data-retrieval error (RuntimeError, HTTP 422), not in a
\* server error (500) and not in a validation error (400).
C15_MissingItemIsRetrievalError ==
    (pc = "done" /\ company # None
        /\ \/ Len(company.assets) = 0
           \/ company.missing \in {"EBIT", "Current Liabilities"}
           \/ (company.missing = "Stockholders Equity" /\ request.industry_type \in {2, 3})) =>
        /\ error = "RuntimeError"
        /\ http = 422
        /\ response = None

\* C17: an accepted request has a non-empty ticker without leading or trailing
\* whitespace and without lower-case letters; an empty or whitespace-only
\* ticker is rejected with a validation error before anything is fetched;
\* normalising a normalised ticker changes nothing; the response's ticker is
\* the request's normalised ticker.
C17_TickerNormalized ==
    /\ (request # None /\ error # "RequestValidationError") =>
          LET tk == request.ticker
          IN  /\ tk # <<>>
              /\ tk[1] # " " /\ tk[Len(tk)] # " "
              /\ \A j \in DOMAIN tk : tk[j] # "a"
              /\ validate_ticker(tk) = [k |-> "ok", v |-> tk]
    /\ (request # None /\ \A j \in DOMAIN request.ticker : request.ticker[j] = " ") =>
          /\ error = "RequestValidationError"
          /\ pc = "done" /\ fetchCalls = 0 /\ response = None
    /\ \A raw \in RawTickers :
          LET once == validate_ticker(raw)
          IN  once.k = "ok" => validate_ticker(once.v) = once
    /\ response # None => response.ticker = request.ticker

C17_Witness ==
    /\ response # None
    /\ request.ticker = <<"A", "A">>
    /\ response.ticker = <<"A", "A">>

\* C18: in every Altman result the classification is the one the variant's rule
\* gives for the reported z_score (the score rounded to 4 decimals), so a
\* reported score equal to a threshold carries Grey Zone.
C18_ReportedConsistent ==
    altman # None =>
        LET z == altman.z_score
            safe == IF request.industry_type = 1 THEN 29900 ELSE 26000
            distress == IF request.industry_type = 1 THEN 18100 ELSE 11000
            rule == IF z.k = "pinf" \/ (z.k = "fin" /\ z.v > safe) THEN "Safe Zone"
                    ELSE IF z.k = "fin" /\ z.v >= distress THEN "Grey Zone"
                    ELSE "Distress Zone"
        IN  altman.classification = rule

\* the outcome of evaluate_company run on its own for a request and the
\* statement fetched for it (None when the fetch failed)
Alone(req, c) ==
    IF c = None
    THEN [response |-> None, error |-> "RuntimeError", http |-> 422]
    ELSE LET a == Altman_evaluate(model_map[req.industry_type], c)
             m == Merton_evaluate(c)
         IN  IF a.k = "raise"
             THEN [response |-> None, error |-> a.exc, http |-> StatusOf(a.exc)]
             ELSE IF m.k = "raise"
             THEN [response |-> None, error |-> m.exc, http |-> StatusOf(m.exc)]
             ELSE IF MertonDetail(m.v).k = "raise"
             THEN [response |-> None, error |-> "ValidationError", http |-> 400]
             ELSE [response |->
                      [ticker |-> req.ticker,
                       model_name |-> a.v.model_name,
                       z_score |-> a.v.z_score,
                       classification |-> a.v.classification,
                       ratios |-> a.v.ratios,
                       merton |-> m.v,
                       combined_decision |->
                           combined_decision(a.v.classification, m.v.classification)],
                   error |-> "none", http |-> 200]

\* C16: evaluations share no state: however the steps of the evaluations in
\* progress interleave, each finished evaluation's outcome (response or error)
\* is the one evaluate_company gives for its request and its fetched data alone.
C16_Independent ==
    \A w \in Workers :
        workers[w].pc = "done" =>
            [response |-> workers[w].response, error |-> workers[w].error,
             http |-> workers[w].http]
                = Alone(workers[w].request, workers[w].company)

C16_Witness ==
    /\ workers[1].pc = "done" /\ workers[2].pc = "done"
    /\ workers[1].request = workers[2].request
    /\ workers[1].company # workers[2].company
    /\ workers[1].response # None
    /\ workers[2].company # None
    /\ workers[2].error = "KeyError"

====
